---- MODULE Spec2Model ----
(***************************************************************************)
(* Model of the streaming pipeline of server.py (generate_stream) and of   *)
(* the text helpers it shares with generate_manim.py.                      *)
(*                                                                         *)
(* Text is a sequence of one-character strings, so that the regular        *)
(* expressions of the source are matched character by character.           *)
(***************************************************************************)
EXTENDS Integers, Sequences, FiniteSets, TLC

\* ------------------------------------------------------------------ bounds

\* number of client requests (streams) the model follows
NumReq == 2
\* longest short prose answer, in characters
MaxProse == 7
\* length of the long prose answer
LongProse == 100
\* longest text, in fragments, the code extractor is applied to on its own
MaxFrags == 5

\* --------------------------------------------------------- program constants

\* ThreadPoolExecutor(max_workers=2)
MaxWorkers == 2
\* chunk_size = 3
chunk_size == 3

Req == 1..NumReq

\* --------------------------------------------------------------- characters

Whitespace == {" ", "\n", "\t"}

WordChars ==
  {"a","b","c","d","e","f","g","h","i","j","k","l","m","n","o","p","q","r","s","t",
   "u","v","w","x","y","z","A","B","C","D","E","F","G","H","I","J","K","L","M","N",
   "O","P","Q","R","S","T","U","V","W","X","Y","Z","0","1","2","3","4","5","6","7",
   "8","9","_"}

\* the backquote character (a string of the module cannot hold one)
Backquote == "BACKQUOTE"

Fence == <<Backquote, Backquote, Backquote>>
Python == <<"p","y","t","h","o","n">>
NL == <<"\n">>
SP == <<" ">>
ClassKw == <<"c","l","a","s","s">>
SceneKw == <<"S","c","e","n","e">>

\* None for class_name; the group (one or more word characters) is never empty
None == <<>>

\* ------------------------------------------------------------ regex helpers

\* the literal lit occurs in s at index i
LitAt(s, i, lit) ==
  /\ i >= 1
  /\ i + Len(lit) - 1 <= Len(s)
  /\ SubSeq(s, i, i + Len(lit) - 1) = lit

\* a greedy run of characters of class cls from index i: the index after it
RECURSIVE SkipWhile(_, _, _)
SkipWhile(s, i, cls) ==
  IF i <= Len(s) /\ s[i] \in cls THEN SkipWhile(s, i + 1, cls) ELSE i

\* a greedy (.*) followed by lit instead, from index j: the last index >= j
\* where lit occurs, 0 when there is none
RECURSIVE GreedyUntilFrom(_, _, _, _)
GreedyUntilFrom(s, j, lit, k) ==
  IF k < j THEN 0
  ELSE IF LitAt(s, k, lit) THEN k
  ELSE GreedyUntilFrom(s, j, lit, k - 1)

GreedyUntil(s, j, lit) == GreedyUntilFrom(s, j, lit, Len(s) - Len(lit) + 1)

\* the lazy (.*?) followed by lit, from index j: the first index >= j where
\* lit occurs, 0 when there is none
RECURSIVE LazyUntil(_, _, _)
LazyUntil(s, j, lit) ==
  IF j + Len(lit) - 1 > Len(s) THEN 0
  ELSE IF LitAt(s, j, lit) THEN j
  ELSE LazyUntil(s, j + 1, lit)

NoMatch == [ok |-> FALSE, from |-> 0, to |-> 0]

\* str.strip(): leading and trailing whitespace removed
RECURSIVE LStrip(_)
LStrip(s) ==
  IF s # <<>> /\ Head(s) \in Whitespace THEN LStrip(Tail(s)) ELSE s

RECURSIVE RStrip(_)
RStrip(s) ==
  IF s # <<>> /\ s[Len(s)] \in Whitespace THEN RStrip(SubSeq(s, 1, Len(s) - 1)) ELSE s

Strip(s) == RStrip(LStrip(s))

\* the fenced-block pattern of extract_code tried at index i; from..to-1 is group 1
FenceOpenAt(s, i) ==
  IF ~ LitAt(s, i, Fence) THEN 0
  ELSE IF LitAt(s, i + 3, Python \o NL) THEN i + 3 + Len(Python) + 1
  ELSE IF LitAt(s, i + 3, NL) THEN i + 3 + 1
  ELSE 0

FenceMatchAt(s, i) ==
  LET b == FenceOpenAt(s, i)
      j == IF b = 0 THEN 0 ELSE LazyUntil(s, b, Fence)
  IN IF j = 0 THEN NoMatch ELSE [ok |-> TRUE, from |-> b, to |-> j]

\* the least element of a non-empty set of indices
Leftmost(S) == CHOOSE i \in S : \A k \in S : i <= k

\* re.search: the match at the leftmost index where the pattern matches
FenceSearch(s) ==
  LET starts == {i \in 1..Len(s) : FenceMatchAt(s, i).ok}
  IN IF starts = {} THEN NoMatch ELSE FenceMatchAt(s, Leftmost(starts))

extract_code(raw) ==
  LET m == FenceSearch(raw)
  IN IF m.ok THEN Strip(SubSeq(raw, m.from, m.to - 1)) ELSE raw

\* the scene-class pattern of detect_class_name tried at index i; from..to-1
\* is group 1
SceneClassAt(s, i) ==
  LET w == i + Len(ClassKw)
      n == SkipWhile(s, w, Whitespace)
      e == SkipWhile(s, n, WordChars)
      p == SkipWhile(s, e, Whitespace)
      q == SkipWhile(s, p + 1, Whitespace)
      c == SkipWhile(s, q + Len(SceneKw), Whitespace)
  IN IF /\ LitAt(s, i, ClassKw)
        /\ n > w
        /\ e > n
        /\ LitAt(s, p, <<"(">>)
        /\ LitAt(s, q, SceneKw)
        /\ LitAt(s, c, <<")">>)
     THEN [ok |-> TRUE, from |-> n, to |-> e]
     ELSE NoMatch

SceneClassSearch(s) ==
  LET starts == {i \in 1..Len(s) : SceneClassAt(s, i).ok}
  IN IF starts = {} THEN NoMatch ELSE SceneClassAt(s, Leftmost(starts))

detect_class_name(code) ==
  LET m == SceneClassSearch(code)
  IN IF m.ok THEN SubSeq(code, m.from, m.to - 1) ELSE None

is_animation_response(raw) == SceneClassSearch(raw).ok


\* ------------------------------------------------------------------ strings

\* SCRIPT_DIR = Path(__file__).parent, the directory the service runs from
SCRIPT_DIR == <<"/","s","r","v">>

RenderFailedPrefix ==
  <<"M","a","n","i","m"," ","r","e","n","d","e","r"," ","f","a","i","l","e","d",":","\n">>

NoSceneMsg ==
  <<"N","o"," ","S","c","e","n","e"," ","c","l","a","s","s"," ","d","e","t","e","c",
    "t","e","d"," ","i","n"," ","g","e","n","e","r","a","t","e","d"," ","c","o","d",
    "e",".">>

NotFoundPrefix ==
  <<"R","e","n","d","e","r","e","d"," ","v","i","d","e","o"," ","n","o","t"," ","f",
    "o","u","n","d"," ","a","t",":"," ">>

Sep == <<"/">>
Media == <<"m","e","d","i","a">>
Videos == <<"v","i","d","e","o","s">>
GeneratedScene == <<"g","e","n","e","r","a","t","e","d","_","s","c","e","n","e">>
Quality == <<"4","8","0","p","1","5">>
\* the folder of another quality, where a renderer of another convention writes
OtherQuality == <<"1","0","8","0","p","6","0">>
Mp4 == <<".","m","p","4">>

\* str(SCRIPT_DIR / "media" / "videos" / "generated_scene" / "480p15" / f"{class_name}.mp4")
VideoPattern(name) ==
  SCRIPT_DIR \o Sep \o Media \o Sep \o Videos \o Sep \o GeneratedScene \o Sep
    \o Quality \o Sep \o name \o Mp4

\* where a renderer of another convention leaves the video of scene name
OtherPath(name) ==
  SCRIPT_DIR \o Sep \o Media \o Sep \o Videos \o Sep \o GeneratedScene \o Sep
    \o OtherQuality \o Sep \o name \o Mp4

UrlPrefix ==
  <<"/","m","e","d","i","a","/","v","i","d","e","o","s","/","g","e","n","e","r","a",
    "t","e","d","_","s","c","e","n","e","/","4","8","0","p","1","5","/">>

\* f"/media/videos/generated_scene/480p15/{class_name}.mp4"
VideoUrl(name) == UrlPrefix \o name \o Mp4

\* a faulty RenderFailedMsg: stdout is preferred to stderr
RenderFailedMsgStdoutFirst(res) ==
  RenderFailedPrefix \o (IF res.stdout # <<>> THEN res.stdout ELSE res.stderr)

\* f"Manim render failed:\n{result.stderr or result.stdout}"
RenderFailedMsg(res) ==
  RenderFailedPrefix \o (IF res.stderr # <<>> THEN res.stderr ELSE res.stdout)

\* f"Rendered video not found at: {pattern}"
NotFoundMsg(pattern) == NotFoundPrefix \o pattern

\* the script the repository ships as generated_scene.py (its first line)
InitialScript ==
  <<"f","r","o","m"," ","m","a","n","i","m"," ","i","m","p","o","r","t"," ","*">>

\* ------------------------------------------------------------------- inputs

Letters == <<"B","e","z","i","e","r","?">>

\* a prose answer of n characters
Prose(n) == [k \in 1..n |-> Letters[((k - 1) % Len(Letters)) + 1]]

SigA == ClassKw \o SP \o <<"A">> \o <<"(">> \o SceneKw \o <<")">>
SigB == ClassKw \o SP \o SP \o <<"B","_","1">> \o SP \o <<"(">> \o SP \o SceneKw \o SP \o <<")">>
Body == <<":">> \o NL \o SP \o <<"p","a","s","s">>

\* a bare script, as the system prompt asks for
ScriptA == SigA \o Body
ScriptB == SigB \o Body
\* a script in a fenced block, with and without the language tag
FencedA == Fence \o Python \o NL \o ScriptA \o NL \o Fence
FencedB == <<"H","i">> \o NL \o Fence \o NL \o NL \o ScriptB \o SP \o NL \o Fence \o NL \o <<"o","k">>
\* the class signature outside the fenced block
SigOutside == SigA \o NL \o Fence \o NL \o <<"x"," ","=", " ","1">> \o NL \o Fence
\* prose that holds the signature
ProseWithSig == <<"u","s","e",":"," ">> \o SigA
\* a class that is no Scene subclass, and a fence with no class
NotAScene == ClassKw \o SP \o <<"A","(","M","o","b","j","e","c","t",")">>
FencedProse == Fence \o NL \o <<"p","i">> \o NL \o Fence

\* what call_oci_ai returns: text.strip()
Completions ==
  {Prose(n) : n \in 0..MaxProse} \cup {Prose(LongProse)}
    \cup {ScriptA, ScriptB, FencedA, FencedB, SigOutside, ProseWithSig, NotAScene, FencedProse}

\* the completions of the concurrent specification: animation scripts
RaceCompletions == {ScriptA, FencedB}

\* str(e) of what call_oci_ai raises
CallErrors == {<<"4","0","1">>, <<"t","i","m","e","o","u","t">>}

\* str(e) of what subprocess.run raises when the renderer cannot be started
SpawnErrors ==
  {<<"[","E","r","r","n","o"," ","2","]"," ","N","o"," ","s","u","c","h"," ","f","i","l","e"," ","o","r"," ","d","i","r","e","c","t","o","r","y",":"," ","'","m","a","n","i","m","'">>}

Err == <<"T","r","a","c","e","b","a","c","k">>
Out == <<"I","N","F","O">>

\* what the renderer subprocess can end with: CompletedProcess and the video
\* file it left ("expected": where the pipeline looks; "elsewhere"; "none")
Outcomes ==
  [returncode : {0, 1}, stderr : {<<>>, Err}, stdout : {<<>>, Out},
   video : {"none", "expected", "elsewhere"}]

RaceOutcomes ==
  {[returncode |-> 0, stderr |-> <<>>, stdout |-> Out, video |-> "expected"],
   [returncode |-> 1, stderr |-> Err, stdout |-> <<>>, video |-> "none"]}

\* -------------------------------------------------------------------- state

VARIABLES
  pc,           \* per request: the position of generate_stream
  raw,          \* per request: the completion text
  code,         \* per request: the extracted code
  class_name,   \* per request: the detected scene name
  idx,          \* per request: i of the chunk loop
  fut,          \* per request: the future of run_in_executor
  result,       \* per request: the CompletedProcess of _render
  log,          \* per request: the frames sent and the stages run, in order
  queue,        \* the executor's work queue (requests whose task waits)
  running,      \* the requests whose task a worker thread runs
  file,         \* the content of SCENE_FILE
  writer,       \* the request that wrote SCENE_FILE last (0: none)
  media,        \* the files under the media directory
  renderInput,  \* per request: what its renderer read from SCENE_FILE
  loop,         \* the request whose coroutine the event loop runs (0: none)
  arg,          \* the text the code extractor is applied to on its own
  outs          \* the results of its successive applications

vars ==
  <<pc, raw, code, class_name, idx, fut, result, log, queue, running, file,
    writer, media, renderInput, loop, arg, outs>>

reqVars == <<pc, raw, code, class_name, idx, fut, result, log>>
poolVars == <<queue, running>>
diskVars == <<file, writer, media, renderInput>>
probeVars == <<arg, outs>>

NoFuture == [state |-> "none"]
NoResult == [returncode |-> 0, stderr |-> <<>>, stdout |-> <<>>]
NoInput == [read |-> FALSE, text |-> <<>>, by |-> 0]

InitPipeline ==
  /\ pc = [r \in Req |-> "idle"]
  /\ raw = [r \in Req |-> <<>>]
  /\ code = [r \in Req |-> <<>>]
  /\ class_name = [r \in Req |-> None]
  /\ idx = [r \in Req |-> 0]
  /\ fut = [r \in Req |-> NoFuture]
  /\ result = [r \in Req |-> NoResult]
  /\ log = [r \in Req |-> <<>>]
  /\ queue = <<>>
  /\ running = {}
  /\ file = InitialScript
  /\ writer = 0
  /\ media = {}
  /\ renderInput = [r \in Req |-> NoInput]
  /\ loop = 0

Init ==
  /\ InitPipeline
  /\ arg = <<>>
  /\ outs = <<>>

\* _sse(event): one frame of the stream
Sse(event) == [kind |-> "sse", event |-> event]
\* a stage of the pipeline that ran, with the text it worked on
Stage(name, text) == [kind |-> "stage", name |-> name, text |-> text]

Emit(r, event) == log' = [log EXCEPT ![r] = Append(@, Sse(event))]
Mark(r, name, text) == log' = [log EXCEPT ![r] = Append(@, Stage(name, text))]


\* ------------------------------------------------------------ the executor

\* a worker thread of the pool takes the oldest waiting task; a render task
\* starts the renderer subprocess with the script path and the scene name
WorkerTake ==
  /\ queue # <<>>
  /\ Cardinality(running) < MaxWorkers
  /\ LET r == Head(queue)
     IN /\ running' = running \cup {r}
        /\ queue' = Tail(queue)
        /\ IF pc[r] = "render_wait"
           THEN Mark(r, "invoke", class_name[r])
           ELSE UNCHANGED log
  /\ UNCHANGED <<pc, raw, code, class_name, idx, fut, result, diskVars, loop, probeVars>>

\* call_oci_ai returns the completion text
CallReturn(r, t) ==
  /\ r \in running
  /\ pc[r] = "call_wait"
  /\ fut' = [fut EXCEPT ![r] = [state |-> "result", value |-> t]]
  /\ running' = running \ {r}
  /\ UNCHANGED <<pc, raw, code, class_name, idx, result, log, queue, diskVars, loop, probeVars>>

\* call_oci_ai raises
CallRaise(r, e) ==
  /\ r \in running
  /\ pc[r] = "call_wait"
  /\ fut' = [fut EXCEPT ![r] = [state |-> "exception", value |-> e]]
  /\ running' = running \ {r}
  /\ UNCHANGED <<pc, raw, code, class_name, idx, result, log, queue, diskVars, loop, probeVars>>

\* the renderer subprocess reads the script at the path it was given
RendererRead(r) ==
  /\ r \in running
  /\ pc[r] = "render_wait"
  /\ ~ renderInput[r].read
  /\ renderInput' = [renderInput EXCEPT ![r] = [read |-> TRUE, text |-> file, by |-> writer]]
  /\ Mark(r, "read", file)
  /\ UNCHANGED <<pc, raw, code, class_name, idx, fut, result, poolVars, file, writer,
                 media, loop, probeVars>>

\* the renderer subprocess ends; subprocess.run returns its CompletedProcess
RenderExit(r, o) ==
  /\ r \in running
  /\ pc[r] = "render_wait"
  /\ renderInput[r].read
  /\ fut' = [fut EXCEPT ![r] =
               [state |-> "result",
                value |-> [returncode |-> o.returncode, stderr |-> o.stderr,
                           stdout |-> o.stdout]]]
  /\ media' = CASE o.video = "expected" -> media \cup {VideoPattern(class_name[r])}
                [] o.video = "elsewhere" -> media \cup {OtherPath(class_name[r])}
                [] OTHER -> media
  /\ running' = running \ {r}
  /\ Mark(r, "exit", <<>>)
  /\ UNCHANGED <<pc, raw, code, class_name, idx, result, queue, file, writer,
                 renderInput, loop, probeVars>>

\* subprocess.run raises: the renderer did not start
RenderRaise(r, e) ==
  /\ r \in running
  /\ pc[r] = "render_wait"
  /\ ~ renderInput[r].read
  /\ fut' = [fut EXCEPT ![r] = [state |-> "exception", value |-> e]]
  /\ running' = running \ {r}
  /\ UNCHANGED <<pc, raw, code, class_name, idx, result, log, queue, diskVars, loop, probeVars>>

\* ---------------------------------------------------------- generate_stream

\* POST /api/generate: the stream starts and submits call_oci_ai to the pool;
\* requests are numbered in the order they arrive
Post(r) ==
  /\ loop = 0
  /\ pc[r] = "idle"
  /\ \A q \in Req : q < r => pc[q] # "idle"
  /\ pc' = [pc EXCEPT ![r] = "call_wait"]
  /\ fut' = [fut EXCEPT ![r] = [state |-> "pending"]]
  /\ queue' = Append(queue, r)
  /\ UNCHANGED <<raw, code, class_name, idx, result, log, running, diskVars, loop, probeVars>>

\* the awaited call raised: except Exception, yield the error frame
CallFailed(r) ==
  /\ loop = 0
  /\ pc[r] = "call_wait"
  /\ fut[r].state = "exception"
  /\ Emit(r, [type |-> "error", detail |-> fut[r].value])
  /\ pc' = [pc EXCEPT ![r] = "call_failed"]
  /\ UNCHANGED <<raw, code, class_name, idx, fut, result, poolVars, diskVars, loop, probeVars>>

\* the return after the error frame of Phase 1
Return(r) ==
  /\ loop = 0
  /\ pc[r] = "call_failed"
  /\ pc' = [pc EXCEPT ![r] = "closed"]
  /\ UNCHANGED <<raw, code, class_name, idx, fut, result, log, poolVars, diskVars, loop, probeVars>>

\* the awaited call returned: raw is bound
CallDone(r) ==
  /\ loop = 0
  /\ pc[r] = "call_wait"
  /\ fut[r].state = "result"
  /\ raw' = [raw EXCEPT ![r] = fut[r].value]
  /\ pc' = [pc EXCEPT ![r] = "classify"]
  /\ loop' = r
  /\ UNCHANGED <<code, class_name, idx, fut, result, log, poolVars, diskVars, probeVars>>

\* a faulty StartText: the branch of a prose answer falls into the animation branch
StartTextFallsThrough(r) ==
  /\ loop = r
  /\ pc[r] = "classify"
  /\ ~ is_animation_response(raw[r])
  /\ log' = [log EXCEPT ![r] =
               @ \o <<Stage("classify", raw[r]), Sse([type |-> "text_start"])>>]
  /\ idx' = [idx EXCEPT ![r] = 0]
  /\ pc' = [pc EXCEPT ![r] = "extract"]
  /\ loop' = 0
  /\ UNCHANGED <<raw, code, class_name, fut, result, poolVars, diskVars, probeVars>>

\* not is_animation_response(raw): yield text_start
StartText(r) ==
  /\ loop = r
  /\ pc[r] = "classify"
  /\ ~ is_animation_response(raw[r])
  /\ log' = [log EXCEPT ![r] =
               @ \o <<Stage("classify", raw[r]), Sse([type |-> "text_start"])>>]
  /\ idx' = [idx EXCEPT ![r] = 0]
  /\ pc' = [pc EXCEPT ![r] = "chunks"]
  /\ loop' = 0
  /\ UNCHANGED <<raw, code, class_name, fut, result, poolVars, diskVars, probeVars>>

\* one pass of the chunk loop: yield raw[i:i + chunk_size]
TextChunk(r) ==
  /\ loop = 0
  /\ pc[r] = "chunks"
  /\ idx[r] < Len(raw[r])
  /\ LET last == IF idx[r] + chunk_size < Len(raw[r])
                 THEN idx[r] + chunk_size ELSE Len(raw[r])
     IN Emit(r, [type |-> "text_chunk", content |-> SubSeq(raw[r], idx[r] + 1, last)])
  /\ pc' = [pc EXCEPT ![r] = "sleep"]
  /\ UNCHANGED <<raw, code, class_name, idx, fut, result, poolVars, diskVars, loop, probeVars>>

\* a faulty Sleep: the loop steps one character too far
SleepSkips(r) ==
  /\ loop = 0
  /\ pc[r] = "sleep"
  /\ idx' = [idx EXCEPT ![r] = @ + chunk_size + 1]
  /\ pc' = [pc EXCEPT ![r] = "chunks"]
  /\ UNCHANGED <<raw, code, class_name, fut, result, log, poolVars, diskVars, loop, probeVars>>

\* await asyncio.sleep(0.012), then the next i of range(0, len(raw), chunk_size)
Sleep(r) ==
  /\ loop = 0
  /\ pc[r] = "sleep"
  /\ idx' = [idx EXCEPT ![r] = @ + chunk_size]
  /\ pc' = [pc EXCEPT ![r] = "chunks"]
  /\ UNCHANGED <<raw, code, class_name, fut, result, log, poolVars, diskVars, loop, probeVars>>

\* the chunk loop is over: yield done
TextDone(r) ==
  /\ loop = 0
  /\ pc[r] = "chunks"
  /\ idx[r] >= Len(raw[r])
  /\ Emit(r, [type |-> "done"])
  /\ pc' = [pc EXCEPT ![r] = "done_sent"]
  /\ UNCHANGED <<raw, code, class_name, idx, fut, result, poolVars, diskVars, loop, probeVars>>

\* is_animation_response(raw): yield rendering
StartRendering(r) ==
  /\ loop = r
  /\ pc[r] = "classify"
  /\ is_animation_response(raw[r])
  /\ log' = [log EXCEPT ![r] =
               @ \o <<Stage("classify", raw[r]), Sse([type |-> "rendering"])>>]
  /\ pc' = [pc EXCEPT ![r] = "extract"]
  /\ loop' = 0
  /\ UNCHANGED <<raw, code, class_name, idx, fut, result, poolVars, diskVars, probeVars>>

\* code = extract_code(raw)
ExtractCode(r) ==
  /\ loop = 0
  /\ pc[r] = "extract"
  /\ code' = [code EXCEPT ![r] = extract_code(raw[r])]
  /\ pc' = [pc EXCEPT ![r] = "write"]
  /\ loop' = r
  /\ UNCHANGED <<raw, class_name, idx, fut, result, log, poolVars, diskVars, probeVars>>

\* a WriteScript under a lock: it waits while a submitted renderer has not read
WriteScriptLocked(r) ==
  /\ loop = r
  /\ pc[r] = "write"
  /\ \A q \in Req : ~ (pc[q] = "render_wait" /\ ~ renderInput[q].read)
  /\ file' = code[r]
  /\ writer' = r
  /\ Mark(r, "write", code[r])
  /\ pc' = [pc EXCEPT ![r] = "detect"]
  /\ UNCHANGED <<raw, code, class_name, idx, fut, result, poolVars, media, renderInput,
                 loop, probeVars>>

\* SCENE_FILE.write_text(code)
WriteScript(r) ==
  /\ loop = r
  /\ pc[r] = "write"
  /\ file' = code[r]
  /\ writer' = r
  /\ Mark(r, "write", code[r])
  /\ pc' = [pc EXCEPT ![r] = "detect"]
  /\ UNCHANGED <<raw, code, class_name, idx, fut, result, poolVars, media, renderInput,
                 loop, probeVars>>

\* a faulty DetectClassName: the name is detected without the script being written
DetectBeforeWrite(r) ==
  /\ loop = r
  /\ pc[r] = "write"
  /\ class_name' = [class_name EXCEPT ![r] = detect_class_name(code[r])]
  /\ Mark(r, "detect", code[r])
  /\ pc' = [pc EXCEPT ![r] = "check_name"]
  /\ UNCHANGED <<raw, code, idx, fut, result, poolVars, diskVars, loop, probeVars>>

\* class_name = detect_class_name(code)
DetectClassName(r) ==
  /\ loop = r
  /\ pc[r] = "detect"
  /\ class_name' = [class_name EXCEPT ![r] = detect_class_name(code[r])]
  /\ Mark(r, "detect", code[r])
  /\ pc' = [pc EXCEPT ![r] = "check_name"]
  /\ UNCHANGED <<raw, code, idx, fut, result, poolVars, diskVars, loop, probeVars>>

\* a faulty NoScene: without a scene name the render is submitted all the same
NoSceneRenders(r) ==
  /\ loop = r
  /\ pc[r] = "check_name"
  /\ class_name[r] = None
  /\ fut' = [fut EXCEPT ![r] = [state |-> "pending"]]
  /\ queue' = Append(queue, r)
  /\ pc' = [pc EXCEPT ![r] = "render_wait"]
  /\ loop' = 0
  /\ UNCHANGED <<raw, code, class_name, idx, result, log, running, diskVars, probeVars>>

\* not class_name: raise ValueError, caught: yield the error frame
NoScene(r) ==
  /\ loop = r
  /\ pc[r] = "check_name"
  /\ class_name[r] = None
  /\ Emit(r, [type |-> "error", detail |-> NoSceneMsg])
  /\ pc' = [pc EXCEPT ![r] = "finish"]
  /\ loop' = 0
  /\ UNCHANGED <<raw, code, class_name, idx, fut, result, poolVars, diskVars, probeVars>>

\* await loop.run_in_executor(executor, _render)
SubmitRender(r) ==
  /\ loop = r
  /\ pc[r] = "check_name"
  /\ class_name[r] # None
  /\ fut' = [fut EXCEPT ![r] = [state |-> "pending"]]
  /\ queue' = Append(queue, r)
  /\ pc' = [pc EXCEPT ![r] = "render_wait"]
  /\ loop' = 0
  /\ UNCHANGED <<raw, code, class_name, idx, result, log, running, diskVars, probeVars>>

\* the awaited _render returned: result is bound
RenderDone(r) ==
  /\ loop = 0
  /\ pc[r] = "render_wait"
  /\ fut[r].state = "result"
  /\ result' = [result EXCEPT ![r] = fut[r].value]
  /\ pc' = [pc EXCEPT ![r] = "check_rc"]
  /\ loop' = r
  /\ UNCHANGED <<raw, code, class_name, idx, fut, log, poolVars, diskVars, probeVars>>

\* a faulty RenderFailed: the error frame is sent and the pipeline goes on
RenderFailedContinues(r) ==
  /\ loop = r
  /\ pc[r] = "check_rc"
  /\ result[r].returncode # 0
  /\ Emit(r, [type |-> "error", detail |-> RenderFailedMsg(result[r])])
  /\ pc' = [pc EXCEPT ![r] = "check_file"]
  /\ UNCHANGED <<raw, code, class_name, idx, fut, result, poolVars, diskVars, loop, probeVars>>

\* result.returncode != 0: raise RuntimeError, caught: yield the error frame
RenderFailed(r) ==
  /\ loop = r
  /\ pc[r] = "check_rc"
  /\ result[r].returncode # 0
  /\ Emit(r, [type |-> "error", detail |-> RenderFailedMsg(result[r])])
  /\ pc' = [pc EXCEPT ![r] = "finish"]
  /\ loop' = 0
  /\ UNCHANGED <<raw, code, class_name, idx, fut, result, poolVars, diskVars, probeVars>>

\* the awaited _render raised, caught: yield the error frame
RenderRaised(r) ==
  /\ loop = 0
  /\ pc[r] = "render_wait"
  /\ fut[r].state = "exception"
  /\ Emit(r, [type |-> "error", detail |-> fut[r].value])
  /\ pc' = [pc EXCEPT ![r] = "finish"]
  /\ UNCHANGED <<raw, code, class_name, idx, fut, result, poolVars, diskVars, loop, probeVars>>

\* result.returncode == 0
RenderOk(r) ==
  /\ loop = r
  /\ pc[r] = "check_rc"
  /\ result[r].returncode = 0
  /\ pc' = [pc EXCEPT ![r] = "check_file"]
  /\ UNCHANGED <<raw, code, class_name, idx, fut, result, log, poolVars, diskVars, loop, probeVars>>

\* a faulty Exists: any video of the media directory counts
ExistsAny(pattern) == media # {}

\* glob.glob(pattern) finds the file
Exists(pattern) == pattern \in media

\* not glob.glob(pattern): raise FileNotFoundError, caught: yield the error frame
ArtifactMissing(r) ==
  /\ loop = r
  /\ pc[r] = "check_file"
  /\ ~ Exists(VideoPattern(class_name[r]))
  /\ log' = [log EXCEPT ![r] =
               @ \o <<Stage("check", VideoPattern(class_name[r])),
                      Sse([type |-> "error",
                           detail |-> NotFoundMsg(VideoPattern(class_name[r]))])>>]
  /\ pc' = [pc EXCEPT ![r] = "finish"]
  /\ loop' = 0
  /\ UNCHANGED <<raw, code, class_name, idx, fut, result, poolVars, diskVars, probeVars>>

\* the file is there: yield the animation frame
ArtifactFound(r) ==
  /\ loop = r
  /\ pc[r] = "check_file"
  /\ Exists(VideoPattern(class_name[r]))
  /\ log' = [log EXCEPT ![r] =
               @ \o <<Stage("check", VideoPattern(class_name[r])),
                      Sse([type |-> "animation", scene_name |-> class_name[r],
                           video_url |-> VideoUrl(class_name[r])])>>]
  /\ pc' = [pc EXCEPT ![r] = "finish"]
  /\ loop' = 0
  /\ UNCHANGED <<raw, code, class_name, idx, fut, result, poolVars, diskVars, probeVars>>

\* the frame after the try block: yield done
Finish(r) ==
  /\ loop = 0
  /\ pc[r] = "finish"
  /\ Emit(r, [type |-> "done"])
  /\ pc' = [pc EXCEPT ![r] = "done_sent"]
  /\ UNCHANGED <<raw, code, class_name, idx, fut, result, poolVars, diskVars, loop, probeVars>>

\* the generator is exhausted after its last frame
StreamEnd(r) ==
  /\ loop = 0
  /\ pc[r] = "done_sent"
  /\ pc' = [pc EXCEPT ![r] = "closed"]
  /\ UNCHANGED <<raw, code, class_name, idx, fut, result, log, poolVars, diskVars, loop, probeVars>>

\* Phase 1 when the call returns a text drawn from texts
CallPath(r, texts) ==
  \/ \E t \in texts : CallReturn(r, t)
  \/ CallDone(r)

\* Phase 1 when the call raises an error drawn from errors
FailedCallPath(r, errors) ==
  \/ \E e \in errors : CallRaise(r, e)
  \/ CallFailed(r)
  \/ Return(r)

\* the branch of a prose answer
TextPath(r) ==
  \/ StartText(r)
  \/ TextChunk(r)
  \/ Sleep(r)
  \/ TextDone(r)

\* the branch of an animation script, the renderer ending as outcomes say
RenderPath(r, outcomes) ==
  \/ StartRendering(r)
  \/ ExtractCode(r)
  \/ WriteScript(r)
  \/ DetectClassName(r)
  \/ SubmitRender(r)
  \/ RendererRead(r)
  \/ \E o \in outcomes : RenderExit(r, o)
  \/ RenderDone(r)
  \/ RenderFailed(r)
  \/ RenderOk(r)
  \/ ArtifactFound(r)
  \/ Finish(r)
  \/ StreamEnd(r)

\* the failures of the animation branch other than a non-zero exit
RenderErrors(r) ==
  \/ NoScene(r)
  \/ \E e \in SpawnErrors : RenderRaise(r, e)
  \/ RenderRaised(r)
  \/ ArtifactMissing(r)

\* one request, over every completion, error and renderer outcome
Next ==
  \/ Post(1)
  \/ WorkerTake
  \/ \E r \in Req :
       \/ CallPath(r, Completions)
       \/ FailedCallPath(r, CallErrors)
       \/ TextPath(r)
       \/ RenderPath(r, Outcomes)
       \/ RenderErrors(r)

Spec == Init /\ [][Next]_vars

\* concurrent requests whose completions are animation scripts
NextRace ==
  \/ \E r \in Req : Post(r)
  \/ WorkerTake
  \/ \E r \in Req :
       \/ CallPath(r, RaceCompletions)
       \/ RenderPath(r, RaceOutcomes)

SpecRace == Init /\ [][NextRace]_vars


\* ------------------------------------------------- the code extractor alone

Frags == <<Fence, Python, NL, SP, <<"x">>>>

\* the fragments f[1], ..., f[Len(f)] of Frags, joined
RECURSIVE Join(_)
Join(f) == IF f = <<>> THEN <<>> ELSE Frags[Head(f)] \o Join(Tail(f))

\* every text of at most MaxFrags fragments
Texts == {Join(f) : f \in UNION {[1..n -> 1..Len(Frags)] : n \in 0..MaxFrags}}

InitExtract ==
  /\ InitPipeline
  /\ arg \in Texts
  /\ outs = <<>>

\* extract_code applied to arg, then to its own result
ApplyExtract ==
  /\ Len(outs) < 2
  /\ outs' = Append(outs, extract_code(IF outs = <<>> THEN arg ELSE outs[Len(outs)]))
  /\ UNCHANGED <<reqVars, poolVars, diskVars, loop, arg>>

NextExtract == ApplyExtract

SpecExtract == InitExtract /\ [][NextExtract]_vars


\* ------------------------------------------------------------------ claims

IsEvent(x, type) == x.kind = "sse" /\ x.event.type = type
IsStage(x, name) == x.kind = "stage" /\ x.name = name

\* the positions of the log of r that hold a frame of the type, a stage of the name
EventAt(r, type) == {k \in 1..Len(log[r]) : IsEvent(log[r][k], type)}
StageAt(r, name) == {k \in 1..Len(log[r]) : IsStage(log[r][k], name)}

\* the frames of the stream of r, in the order sent
Frames(r) ==
  LET sent == SelectSeq(log[r], LAMBDA x : x.kind = "sse")
  IN [k \in 1..Len(sent) |-> sent[k].event]

\* the stream of r has sent its last frame
Over(r) == pc[r] \in {"call_failed", "done_sent", "closed"}

\* the try block of the animation branch of r is over
TryOver(r) == pc[r] \in {"finish", "done_sent", "closed"}

\* the completion of r was classified as prose
ProseAnswer(r) == StageAt(r, "classify") # {} /\ ~ is_animation_response(raw[r])

\* text d holds text t as a contiguous part
Embeds(d, t) == \E i \in 1..(Len(d) + 1) : LitAt(d, i, t)

\* C1: whatever the outcome of a request, the failure of the completion call
\* included, its stream sends exactly one done frame and done is its last frame.
C1_DoneIsSentLast ==
  \A r \in Req :
    /\ \A k \in EventAt(r, "done") : k = Len(log[r])
    /\ pc[r] = "closed" =>
         /\ Cardinality(EventAt(r, "done")) = 1
         /\ IsEvent(log[r][Len(log[r])], "done")

\* the detail of the error frame a failure of r must yield, <<>> when nothing failed
FailureDetail(r) ==
  IF fut[r].state = "exception" THEN <<fut[r].value>>
  ELSE IF ~ TryOver(r) THEN <<>>
  ELSE IF StageAt(r, "detect") # {} /\ class_name[r] = None THEN <<NoSceneMsg>>
  ELSE IF StageAt(r, "exit") # {} /\ result[r].returncode # 0
    THEN <<RenderFailedPrefix \o (IF result[r].stderr = <<>> THEN result[r].stdout
                                  ELSE result[r].stderr)>>
  ELSE IF StageAt(r, "exit") # {} /\ VideoPattern(class_name[r]) \notin media
    THEN <<NotFoundPrefix \o VideoPattern(class_name[r])>>
  ELSE <<>>

\* C2: a failure at any stage (the call raises, no scene name, the renderer does
\* not start or exits non-zero, the artifact is missing) yields exactly one error frame, which carries
\* the detail of that failure, and no stage and no animation frame follows it.
C2_OneErrorThenNothing ==
  \A r \in Req :
    /\ (Over(r) \/ TryOver(r)) /\ FailureDetail(r) # <<>> =>
         /\ Cardinality(EventAt(r, "error")) = 1
         /\ \A k \in EventAt(r, "error") : log[r][k].event.detail = FailureDetail(r)[1]
    /\ \A k \in EventAt(r, "error") :
         \A m \in (k + 1)..Len(log[r]) : IsEvent(log[r][m], "done")

C2_Witness ==
  \E r \in Req :
    /\ pc[r] = "closed"
    /\ StageAt(r, "exit") # {}
    /\ result[r].returncode # 0
    /\ EventAt(r, "error") # {}

\* C3: a request whose completion is classified as prose never writes the script
\* file and never invokes the renderer, and its stream holds text_start,
\* text_chunk and done frames only.
C3_ProseTouchesNothing ==
  \A r \in Req :
    ProseAnswer(r) =>
      /\ \A k \in 1..Len(log[r]) :
           \/ IsStage(log[r][k], "classify")
           \/ /\ log[r][k].kind = "sse"
              /\ log[r][k].event.type \in {"text_start", "text_chunk", "done"}
      /\ writer # r
      /\ file = InitialScript
      /\ ~ renderInput[r].read
      /\ r \notin running
      /\ media = {}

C3_Witness ==
  \E r \in Req :
    /\ ProseAnswer(r)
    /\ pc[r] = "closed"
    /\ EventAt(r, "text_chunk") # {}

\* the texts of the frames f[from], ..., f[to], joined
RECURSIVE Contents(_, _, _)
Contents(f, from, to) ==
  IF from > to THEN <<>> ELSE f[from].content \o Contents(f, from + 1, to)

\* C4: for a prose answer of n characters the stream is text_start, then exactly
\* ceil(n/3) text_chunk frames of at most 3 characters, all but the last of
\* exactly 3, whose texts joined in order are the answer, then done (34 chunks
\* for n = 100, none for n = 0).
C4_ChunksRebuildTheText ==
  \A r \in Req :
    ProseAnswer(r) /\ Over(r) =>
      LET f == Frames(r)
          n == Len(raw[r])
          c == (n + 2) \div 3
      IN /\ Len(f) = c + 2
         /\ f[1].type = "text_start"
         /\ f[c + 2].type = "done"
         /\ \A k \in 2..(c + 1) :
              /\ f[k].type = "text_chunk"
              /\ Len(f[k].content) <= 3
              /\ k < c + 1 => Len(f[k].content) = 3
         /\ Contents(f, 2, c + 1) = raw[r]
         /\ n = 100 => Cardinality(EventAt(r, "text_chunk")) = 34
         /\ n = 0 => EventAt(r, "text_chunk") = {}

C4_Witness ==
  \E r \in Req :
    /\ ProseAnswer(r)
    /\ pc[r] = "closed"
    /\ Len(raw[r]) % 3 # 0
    /\ Cardinality(EventAt(r, "text_chunk")) >= 3

\* /media/videos/generated_scene/480p15/
C5_Folder ==
  <<"/","m","e","d","i","a","/","v","i","d","e","o","s","/","g","e","n","e","r","a",
    "t","e","d","_","s","c","e","n","e","/","4","8","0","p","1","5","/">>

\* C5: an animation frame is sent only if, for the same request, the renderer was
\* invoked with the scene name of the frame, exited with status zero, and the check
\* for media/videos/generated_scene/480p15/<scene_name>.mp4 found the file; when the
\* file is absent after an exit with status zero the request yields an error frame
\* and no animation frame. The video_url of the frame is
\* /media/videos/generated_scene/480p15/<scene_name>.mp4 of the same scene name.
C5_AnimationOnlyAfterCheck ==
  \A r \in Req :
    /\ \A k \in EventAt(r, "animation") :
         LET e == log[r][k].event
             path == SCRIPT_DIR \o C5_Folder \o e.scene_name \o <<".","m","p","4">>
         IN /\ \E a \in StageAt(r, "invoke") :
                 /\ a < k
                 /\ log[r][a].text = e.scene_name
                 /\ \E x \in StageAt(r, "exit") :
                      /\ a < x
                      /\ \E c \in StageAt(r, "check") :
                           x < c /\ c < k /\ log[r][c].text = path
            /\ result[r].returncode = 0
            /\ path \in media
            /\ e.video_url = C5_Folder \o e.scene_name \o <<".","m","p","4">>
    /\ /\ TryOver(r)
       /\ StageAt(r, "exit") # {}
       /\ result[r].returncode = 0
       /\ SCRIPT_DIR \o C5_Folder \o class_name[r] \o <<".","m","p","4">> \notin media
       => EventAt(r, "animation") = {} /\ EventAt(r, "error") # {}

C5_Witness ==
  \E r \in Req :
    /\ pc[r] = "closed"
    /\ EventAt(r, "animation") # {}

\* C6: when detect_class_name finds no scene name in the extracted code, although
\* the classifier matched the raw text, the request fails: the renderer is never
\* invoked for it and its stream carries an error frame; the script file has
\* already been overwritten with the extracted code.
C6_NoSceneIsTerminal ==
  \A r \in Req :
    StageAt(r, "detect") # {} /\ class_name[r] = None =>
      /\ StageAt(r, "invoke") = {}
      /\ r \notin running
      /\ ~ renderInput[r].read
      /\ pc[r] \in {"check_name", "finish", "done_sent", "closed"}
      /\ TryOver(r) => EventAt(r, "error") # {}
      /\ \E w \in StageAt(r, "write") :
           /\ \A d \in StageAt(r, "detect") : w < d
           /\ log[r][w].text = code[r]
      /\ file = code[r]

C6_Witness ==
  \E r \in Req :
    /\ pc[r] = "closed"
    /\ is_animation_response(raw[r])
    /\ StageAt(r, "detect") # {}
    /\ class_name[r] = None
    /\ file # InitialScript

\* C7: whenever the renderer exits with a non-zero status the request yields an
\* error whose detail holds the captured stderr of that run, for every pair of
\* captured stderr and stdout.
C7_ErrorEmbedsStderr ==
  \A r \in Req :
    TryOver(r) /\ StageAt(r, "exit") # {} /\ result[r].returncode # 0 =>
      \E k \in EventAt(r, "error") : Embeds(log[r][k].event.detail, result[r].stderr)

C7_Witness ==
  \E r \in Req :
    /\ pc[r] = "closed"
    /\ StageAt(r, "exit") # {}
    /\ result[r].returncode # 0
    /\ result[r].stderr # <<>>
    /\ result[r].stdout # <<>>

\* the fenced blocks of s: <<i, b, j>> when a fence opens at i, with or without
\* the language tag, and a line break, the interior starts at b, and the next
\* fence after the opening starts at j
Blocks(s) ==
  LET opens == {o \in (1..Len(s)) \X {4, 10} :
                  LitAt(s, o[1], IF o[2] = 4 THEN Fence \o NL ELSE Fence \o Python \o NL)}
  IN {<<p[1][1], p[1][1] + p[1][2], p[2]>> :
        p \in {x \in opens \X (1..Len(s)) :
                 /\ x[2] >= x[1][1] + x[1][2]
                 /\ LitAt(s, x[2], Fence)
                 /\ \A k \in (x[1][1] + x[1][2])..(x[2] - 1) : ~ LitAt(s, k, Fence)}}

\* the interior of the first fenced block of s
FirstInterior(s) ==
  LET first == CHOOSE t \in Blocks(s) : \A u \in Blocks(s) : t[1] <= u[1]
  IN SubSeq(s, first[2], first[3] - 1)

\* u is t without its leading and trailing whitespace
IsTrimOf(u, t) ==
  \E a \in 0..Len(t) : \E z \in 0..(Len(t) - a) :
    /\ u = SubSeq(t, a + 1, Len(t) - z)
    /\ \A k \in 1..a : t[k] \in Whitespace
    /\ \A k \in (Len(t) - z + 1)..Len(t) : t[k] \in Whitespace
    /\ u # <<>> => u[1] \notin Whitespace /\ u[Len(u)] \notin Whitespace

\* C8: extract_code is idempotent; a text with no fenced block is returned
\* unchanged, and a text with one yields the interior of its first fenced block
\* without its leading and trailing whitespace.
C8_ExtractIdempotent ==
  /\ Len(outs) >= 1 =>
       IF Blocks(arg) = {} THEN outs[1] = arg
       ELSE IsTrimOf(outs[1], FirstInterior(arg))
  /\ Len(outs) >= 2 => outs[2] = outs[1]

C8_Witness ==
  /\ Len(outs) = 2
  /\ Blocks(arg) # {}
  /\ outs[1] # <<>>
  /\ outs[1] # FirstInterior(arg)

\* every position of the log of r where q holds comes after one where p holds
Precedes(r, P, Q) == \A k \in Q : \E j \in P : j < k

\* C9: on the animation branch the steps of a request come in one order: the
\* rendering frame, the overwrite of the script file, the detection of the scene
\* name, the invocation of the renderer, its end, the check for the file, the
\* animation frame; rendering is sent exactly once and before any animation or
\* error frame of the branch.
C9_AnimationStepsInOrder ==
  \A r \in Req :
    /\ Precedes(r, EventAt(r, "rendering"), StageAt(r, "write"))
    /\ Precedes(r, StageAt(r, "write"), StageAt(r, "detect"))
    /\ Precedes(r, StageAt(r, "detect"), StageAt(r, "invoke"))
    /\ Precedes(r, StageAt(r, "invoke"), StageAt(r, "exit"))
    /\ Precedes(r, StageAt(r, "exit"), StageAt(r, "check"))
    /\ Precedes(r, StageAt(r, "check"), EventAt(r, "animation"))
    /\ Precedes(r, EventAt(r, "rendering"), EventAt(r, "animation"))
    /\ \A n \in {"write", "detect", "invoke", "exit", "check"} :
         Cardinality(StageAt(r, n)) <= 1
    /\ Cardinality(EventAt(r, "rendering")) <= 1
    /\ StageAt(r, "classify") # {} /\ is_animation_response(raw[r]) =>
         /\ Cardinality(EventAt(r, "rendering")) = 1
         /\ Precedes(r, EventAt(r, "rendering"), EventAt(r, "error"))

C9_Witness ==
  \E r \in Req :
    /\ pc[r] = "closed"
    /\ EventAt(r, "animation") # {}
    /\ StageAt(r, "check") # {}

\* C10: with concurrent animation requests on the one script file, nothing keeps
\* a later request from overwriting the file between the write of an earlier
\* request and the read of that request's renderer: the overwrite stays possible
\* in that window, and a renderer works on what the last writer left, whichever
\* request that was.
C10_OverwriteNotExcluded ==
  \A r \in Req :
    /\ \A q \in Req \ {r} :
         /\ pc[r] = "render_wait"
         /\ ~ renderInput[r].read
         /\ pc[q] = "write"
         => ENABLED WriteScript(q)
    /\ renderInput[r].read =>
         /\ renderInput[r].by \in Req
         /\ renderInput[r].text = code[renderInput[r].by]

\* the renderer of the earlier request r, invoked with the scene name of r, has
\* read the script of the later request q
C10_Witness ==
  \E r \in Req : \E q \in Req \ {r} :
    /\ renderInput[r].read
    /\ renderInput[r].by = q
    /\ renderInput[r].text = code[q]
    /\ code[q] # code[r]
    /\ \E w \in StageAt(r, "write") : \E a \in StageAt(r, "invoke") :
         /\ w < a
         /\ log[r][a].text = class_name[r]
         /\ class_name[r] # class_name[q]

====
